---- MODULE Spec2Model ----
(***************************************************************************)
(* Model of stdlib/public/runtime/Demangle.cpp: the runtime's builder of   *)
(* demangling trees from type metadata,                                    *)
(*   _buildDemanglingForNominalType   and                                  *)
(*   swift::_swift_buildDemanglingForMetadata.                             *)
(*                                                                         *)
(* A C string is a sequence of one-character strings (without its          *)
(* terminating NUL); a node is a record [kind, text, children]; a metadata *)
(* record is a record whose "kind" field is its MetadataKind.              *)
(***************************************************************************)
EXTENDS Integers, Sequences, FiniteSets, TLC

VARIABLES type, build, pc, result

vars == <<type, build, pc, result>>

----------------------------------------------------------------------------
(* Bounds of the model. *)

\* Largest number of formal arguments of a function type.
MaxArgs == 2
\* Largest number of elements of a tuple type.
MaxElements == 3
\* Largest number of protocols of an existential type.
MaxProtocols == 3
\* Largest number of primary generic parameters of a nominal type.
MaxGenericParams == 2
\* Deepest chain of parent types of a nominal type.
MaxNesting == 2

----------------------------------------------------------------------------
(* C strings. *)

\* The byte value of a character (the characters the model's names use).
Ord(c) ==
  CASE c = " " -> 32
    [] c = "1" -> 49
    [] c = "2" -> 50
    [] c = "3" -> 51
    [] c = "A" -> 65
    [] c = "B" -> 66
    [] c = "C" -> 67
    [] c = "M" -> 77
    [] c = "N" -> 78
    [] c = "O" -> 79
    [] c = "P" -> 80
    [] c = "S" -> 83
    [] c = "T" -> 84
    [] c = "V" -> 86
    [] c = "_" -> 95
    [] c = "t" -> 116
    [] c = "x" -> 120
    [] c = "y" -> 121
    [] c = "z" -> 122

\* The byte at position i of a C string: past the end it is the NUL.
ByteAt(s, i) == IF i <= Len(s) THEN Ord(s[i]) ELSE 0

RECURSIVE strcmpFrom(_, _, _)
strcmpFrom(a, b, i) ==
  IF ByteAt(a, i) # ByteAt(b, i) THEN ByteAt(a, i) - ByteAt(b, i)
  ELSE IF ByteAt(a, i) = 0 THEN 0
  ELSE strcmpFrom(a, b, i + 1)

\* strcmp(a, b): the difference of the first bytes that differ, 0 if none.
strcmp(a, b) == strcmpFrom(a, b, 1)

\* strchr(s, c): the position of the first c in s, 0 (NULL) if there is none.
strchr(s, c) ==
  IF \E i \in 1..Len(s) : s[i] = c
  THEN CHOOSE i \in 1..Len(s) : s[i] = c /\ \A j \in 1..(i - 1) : s[j] # c
  ELSE 0

----------------------------------------------------------------------------
(* Nodes. *)

NoText == <<>>

\* NodeFactory::create(kind) and NodeFactory::create(kind, text).
create(kind) == [kind |-> kind, text |-> NoText, children |-> <<>>]
createText(kind, text) == [kind |-> kind, text |-> text, children |-> <<>>]

\* The null NodePointer.
nullptr == [kind |-> "<nullptr>", text |-> NoText, children |-> <<>>]
\* The call does not return: the process has trapped.
Crash == [kind |-> "<crash>", text |-> NoText, children |-> <<>>]
\* What a wild pointer points at.
Junk == [kind |-> "<junk>", text |-> NoText, children |-> <<>>]

\* Node::addChild: the child is appended, whatever it is.
addChild(node, child) == [node EXCEPT !.children = Append(@, child)]

getChild(node, i) == node.children[i + 1]

IsNode(n) == n # nullptr /\ n # Crash

----------------------------------------------------------------------------
(* The name decoder of lib/Basic/Demangle.cpp, for the manglings the       *)
(* metadata of the model carries:                                          *)
(*   nominal type  ::= ('C' | 'V' | 'O') identifier identifier             *)
(*   protocol      ::= '_Tt' 'P' identifier identifier '_'                 *)
(*   identifier    ::= length-digit character*                             *)

Digits == {"1", "2", "3"}

\* One identifier of s starting at pos: its text and the position after it.
demangleIdentifier(s, pos) ==
  IF pos <= Len(s) /\ s[pos] \in Digits /\ pos + (Ord(s[pos]) - 48) <= Len(s)
  THEN [ok |-> TRUE,
        text |-> SubSeq(s, pos + 1, pos + (Ord(s[pos]) - 48)),
        next |-> pos + (Ord(s[pos]) - 48) + 1]
  ELSE [ok |-> FALSE, text |-> NoText, next |-> 0]

\* The node kind a nominal mangling's first character stands for.
demangleNominalKind(c) ==
  CASE c = "C" -> "Class"
    [] c = "V" -> "Structure"
    [] c = "O" -> "Enum"
    [] OTHER -> "<none>"

\* A context (module) and a name, from position pos of s, as a node `kind`.
demangleDeclName(s, pos, kind) ==
  LET module == demangleIdentifier(s, pos)
      ident  == demangleIdentifier(s, module.next)
  IN  IF module.ok /\ ident.ok
      THEN [ok |-> TRUE,
            node |-> addChild(addChild(create(kind),
                                       createText("Module", module.text)),
                              createText("Identifier", ident.text)),
            next |-> ident.next]
      ELSE [ok |-> FALSE, node |-> nullptr, next |-> 0]

\* demangleTypeAsNode: Type -> (Class|Structure|Enum)(Module, Identifier),
\* or nullptr when the string is no type mangling.
demangleTypeAsNode(s) ==
  IF Len(s) = 0 \/ demangleNominalKind(s[1]) = "<none>" THEN nullptr
  ELSE LET decl == demangleDeclName(s, 2, demangleNominalKind(s[1]))
       IN  IF decl.ok /\ decl.next = Len(s) + 1
           THEN addChild(create("Type"), decl.node)
           ELSE nullptr

\* demangleSymbolAsNode on a protocol's name:
\* Global -> TypeMangling -> Type -> ProtocolList -> TypeList -> Type -> Protocol,
\* or nullptr when the string is no mangled symbol.
demangleSymbolAsNode(s) ==
  IF Len(s) < 4 \/ SubSeq(s, 1, 4) # <<"_", "T", "t", "P">> THEN nullptr
  ELSE LET decl == demangleDeclName(s, 5, "Protocol")
       IN  IF decl.ok /\ decl.next = Len(s) /\ s[decl.next] = "_"
           THEN addChild(create("Global"),
                  addChild(create("TypeMangling"),
                    addChild(create("Type"),
                      addChild(create("ProtocolList"),
                        addChild(create("TypeList"),
                          addChild(create("Type"), decl.node))))))
           ELSE nullptr

\* The module ObjC classes and protocols are mangled in.
MANGLING_MODULE_OBJC == <<"_", "_", "O", "b", "j", "C">>

----------------------------------------------------------------------------
(* _buildDemanglingForNominalType and _swift_buildDemanglingForMetadata.   *)
(*                                                                         *)
(* env is the build that runs the code:                                    *)
(*   env.ub           what an undefined read yields in it: the process     *)
(*                    traps (Crash), or the read yields a null pointer or  *)
(*                    a wild one (Junk);                                   *)
(*   env.objcInterop  SWIFT_OBJC_INTEROP;                                  *)
(*   env.ndebug       assertions are compiled out.                         *)

NominalKinds == {"Class", "Struct", "Enum", "Optional"}

\* The switch on the kind: the bound generic node kind of a nominal type.
boundGenericKindOf(kind) ==
  CASE kind = "Class"    -> "BoundGenericClass"
    [] kind = "Enum"     -> "BoundGenericEnum"
    [] kind = "Optional" -> "BoundGenericEnum"
    [] kind = "Struct"   -> "BoundGenericStructure"

\* unwrapParent without the step from the parent's Type node to its child.
unwrapParentKeepType(parentNode, env) ==
  IF parentNode = Crash THEN Crash
  ELSE IF parentNode = nullptr THEN env.ub
  ELSE parentNode

\* parentNode after `if (parentNode->getKind() == Type) parentNode =
\* parentNode->getChild(0)`. On a null parentNode the read is undefined.
unwrapParent(parentNode, env) ==
  IF parentNode = Crash THEN Crash
  ELSE IF parentNode = nullptr THEN env.ub
  ELSE IF parentNode.kind = "Type" THEN getChild(parentNode, 0)
  ELSE parentNode

\* The node rebuilt around the parent: Type -> kind(parentNode, identifier).
nestInParent(node, parentNode) ==
  LET typeNode    == getChild(node, 0)
      newTypeNode == addChild(addChild(create(typeNode.kind), parentNode),
                              getChild(typeNode, 1))
  IN  addChild(create("Type"), newTypeNode)

RECURSIVE swift_buildDemanglingForMetadata(_, _)
RECURSIVE genericParamsLoop(_, _, _, _)

\* The loop over the generic parameters from slot i on: the TypeList, or
\* nullptr as soon as one parameter has no demangling.
genericParamsLoop(params, i, typeParams, env) ==
  IF i > Len(params) THEN typeParams
  ELSE LET demangling == swift_buildDemanglingForMetadata(params[i], env)
       IN  IF demangling = Crash THEN Crash
           ELSE IF demangling = nullptr THEN nullptr
           ELSE genericParamsLoop(params, i + 1,
                                  addChild(typeParams, demangling), env)

\* boundGenericNode with a Type node around the bound generic node.
boundGenericNodeInType(kind, node, typeParams) ==
  addChild(create("Type"),
           addChild(addChild(create(boundGenericKindOf(kind)), node), typeParams))

\* genericNode: boundGenericKind(node, typeParams).
boundGenericNode(kind, node, typeParams) ==
  addChild(addChild(create(boundGenericKindOf(kind)), node), typeParams)

buildDemanglingForNominalType(t, env) ==
  IF t.kind \notin NominalKinds THEN nullptr
  ELSE
    LET base == demangleTypeAsNode(t.Name)
        parentNode ==
          unwrapParent(swift_buildDemanglingForMetadata(t.Parent[1], env), env)
        node == IF Len(t.Parent) = 0 THEN base
                ELSE IF parentNode = Crash THEN Crash
                ELSE nestInParent(base, parentNode)
        typeParams == genericParamsLoop(t.GenericParams, 1,
                                        create("TypeList"), env)
    IN  IF node = Crash THEN Crash
        ELSE IF Len(t.GenericParams) > 0
        THEN IF IsNode(typeParams)
             THEN boundGenericNode(t.kind, node, typeParams)
             ELSE typeParams
        ELSE node

----------------------------------------------------------------------------
(* The Existential case. *)

RECURSIVE insertProtocolDescending(_, _)
\* insertProtocol with the comparison the other way round.
insertProtocolDescending(sorted, a) ==
  IF Len(sorted) = 0 THEN <<a>>
  ELSE IF strcmp(Head(sorted), a) > 0
       THEN <<Head(sorted)>> \o insertProtocolDescending(Tail(sorted), a)
       ELSE <<a>> \o sorted

RECURSIVE insertProtocol(_, _)
\* a goes before the first element that is not less than it.
insertProtocol(sorted, a) ==
  IF Len(sorted) = 0 THEN <<a>>
  ELSE IF strcmp(Head(sorted), a) < 0
       THEN <<Head(sorted)>> \o insertProtocol(Tail(sorted), a)
       ELSE <<a>> \o sorted

RECURSIVE sortFrom(_, _, _)
sortFrom(protocols, i, sorted) ==
  IF i > Len(protocols) THEN sorted
  ELSE sortFrom(protocols, i + 1, insertProtocol(sorted, protocols[i]))

\* sortProtocols without the sort: the protocols in the metadata's order.
sortProtocolsUnsorted(protocols) == protocols

\* std::sort of the protocols under strcmp(a->Name, b->Name) < 0. A protocol
\* descriptor is its Name, the one field the code reads.
sortProtocols(protocols) == sortFrom(protocols, 1, <<>>)

\* The body of the loop over the sorted protocols: the Type node of one protocol.
protocolTypeNode(Name) ==
  LET protocolNode == demangleSymbolAsNode(Name)
  IN  IF protocolNode = nullptr
      THEN addChild(create("Type"),
             addChild(addChild(create("Protocol"),
                               createText("Module", MANGLING_MODULE_OBJC)),
                      createText("Identifier", Name)))
      ELSE getChild(getChild(getChild(getChild(getChild(protocolNode, 0), 0),
                                      0), 0), 0)

RECURSIVE protocolsLoop(_, _, _)
protocolsLoop(protocols, i, type_list) ==
  IF i > Len(protocols) THEN type_list
  ELSE protocolsLoop(protocols, i + 1,
                     addChild(type_list, protocolTypeNode(protocols[i])))

buildExistential(exis) ==
  addChild(create("ProtocolList"),
           protocolsLoop(sortProtocols(exis.Protocols), 1, create("TypeList")))

----------------------------------------------------------------------------
(* The Function case. *)

\* The switch on the convention.
functionKind(convention) ==
  CASE convention = "Swift"            -> "FunctionType"
    [] convention = "Block"            -> "ObjCBlock"
    [] convention = "CFunctionPointer" -> "CFunctionPointer"
    [] convention = "Thin"             -> "ThinFunctionType"

\* One argument's input: its demangling, inside an InOut node if its flag is set.
inputOf(demangling, flag) ==
  IF demangling = Crash THEN Crash
  ELSE IF flag THEN addChild(create("InOut"), demangling)
  ELSE demangling

\* A node of the given kind with the nodes of seq as its children.
RECURSIVE addChildren(_, _, _)
addChildren(node, seq, i) ==
  IF i > Len(seq) THEN node
  ELSE addChildren(addChild(node, seq[i]), seq, i + 1)

\* totalInputOf with the tuple around a single input too.
totalInputOfAlwaysTuple(inputs, env) ==
  IF Len(inputs) > 0 THEN addChildren(create("NonVariadicTuple"), inputs, 1)
  ELSE env.ub

\* totalInput: the tuple of the inputs when there are two or more, else
\* inputs.front(), an undefined read when inputs is empty.
totalInputOf(inputs, env) ==
  IF Len(inputs) > 1 THEN addChildren(create("NonVariadicTuple"), inputs, 1)
  ELSE IF Len(inputs) = 0 THEN env.ub
  ELSE inputs[1]

\* functionNode with the ThrowsAnnotation added last.
functionNodeThrowsLast(kind, throws, totalInput, resultTy) ==
  LET args     == addChild(create("ArgumentTuple"), totalInput)
      res      == addChild(create("ReturnType"), resultTy)
      funcNode == addChild(addChild(create(kind), args), res)
  IN  IF throws THEN addChild(funcNode, create("ThrowsAnnotation")) ELSE funcNode

\* funcNode: kind([ThrowsAnnotation], ArgumentTuple(totalInput), ReturnType(resultTy)).
functionNode(kind, throws, totalInput, resultTy) ==
  LET args     == addChild(create("ArgumentTuple"), totalInput)
      res      == addChild(create("ReturnType"), resultTy)
      funcNode == IF throws THEN addChild(create(kind), create("ThrowsAnnotation"))
                  ELSE create(kind)
  IN  addChild(addChild(funcNode, args), res)

buildFunction(func, env) ==
  LET inputs == [i \in 1..Len(func.Arguments) |->
                   inputOf(swift_buildDemanglingForMetadata(
                             func.Arguments[i].pointer, env),
                           func.Arguments[i].flag)]
      totalInput == totalInputOf(inputs, env)
      resultTy == swift_buildDemanglingForMetadata(func.ResultType, env)
  IN  IF (\E i \in 1..Len(inputs) : inputs[i] = Crash) \/ totalInput = Crash
         \/ resultTy = Crash
      THEN Crash
      ELSE functionNode(functionKind(func.Convention), func.Throws,
                        totalInput, resultTy)

----------------------------------------------------------------------------
(* The metatype cases. *)

\* existentialMetatypeNode with the Type node the Metatype case adds.
existentialMetatypeNodeInType(instance) ==
  addChild(create("ExistentialMetatype"), addChild(create("Type"), instance))

existentialMetatypeNode(instance) ==
  addChild(create("ExistentialMetatype"), instance)

metatypeNode(instance) ==
  addChild(create("Metatype"), addChild(create("Type"), instance))

----------------------------------------------------------------------------
(* The Tuple case. labels is <<>> for a null Labels pointer, else <<s>>    *)
(* with s the string from the cursor on.                                   *)

\* labelStep with the cursor left on the space instead of past it.
labelStepNoSkip(labels) ==
  IF Len(labels) = 0 THEN [name |-> <<>>, labels |-> labels]
  ELSE LET space == strchr(labels[1], " ")
       IN  IF space = 0 THEN [name |-> <<>>, labels |-> labels]
           ELSE [name |-> IF space # 1
                          THEN <<createText("TupleElementName",
                                            SubSeq(labels[1], 1, space - 1))>>
                          ELSE <<>>,
                 labels |-> <<SubSeq(labels[1], space, Len(labels[1]))>>]

\* The label of the next element and the cursor after it.
labelStep(labels) ==
  IF Len(labels) = 0 THEN [name |-> <<>>, labels |-> labels]
  ELSE LET space == strchr(labels[1], " ")
       IN  IF space = 0 THEN [name |-> <<>>, labels |-> labels]
           ELSE [name |-> IF space # 1
                          THEN <<createText("TupleElementName",
                                            SubSeq(labels[1], 1, space - 1))>>
                          ELSE <<>>,
                 labels |-> <<SubSeq(labels[1], space + 1, Len(labels[1]))>>]

\* One TupleElement: the label child if there is one, then the type child.
tupleElement(name, eltType) ==
  addChild(addChildren(create("TupleElement"), name, 1), eltType)

RECURSIVE tupleLoop(_, _, _, _, _)
tupleLoop(tuple, i, labels, tupleNode, env) ==
  IF i > Len(tuple.Elements) THEN tupleNode
  ELSE LET step    == labelStep(labels)
           eltType == swift_buildDemanglingForMetadata(tuple.Elements[i], env)
       IN  IF eltType = Crash THEN Crash
           ELSE tupleLoop(tuple, i + 1, step.labels,
                          addChild(tupleNode, tupleElement(step.name, eltType)),
                          env)

----------------------------------------------------------------------------
(* The remaining cases and the dispatch. *)

buildObjCClassWrapper(objcWrapper, env) ==
  IF env.objcInterop
  THEN addChild(addChild(create("Class"), createText("Module", MANGLING_MODULE_OBJC)),
                createText("Identifier", objcWrapper.Name))
  ELSE IF env.ndebug THEN nullptr
  ELSE Crash

swift_buildDemanglingForMetadata(t, env) ==
  CASE t.kind \in NominalKinds -> buildDemanglingForNominalType(t, env)
    [] t.kind = "ObjCClassWrapper" -> buildObjCClassWrapper(t, env)
    [] t.kind = "ForeignClass" -> demangleTypeAsNode(t.Name)
    [] t.kind = "Existential" -> buildExistential(t)
    [] t.kind = "ExistentialMetatype" ->
         LET instance == swift_buildDemanglingForMetadata(t.InstanceType, env)
         IN  IF instance = Crash THEN Crash ELSE existentialMetatypeNode(instance)
    [] t.kind = "Function" -> buildFunction(t, env)
    [] t.kind = "Metatype" ->
         LET instance == swift_buildDemanglingForMetadata(t.InstanceType, env)
         IN  IF instance = Crash THEN Crash ELSE metatypeNode(instance)
    [] t.kind = "Tuple" ->
         tupleLoop(t, 1, t.Labels, create("NonVariadicTuple"), env)
    [] OTHER -> nullptr

----------------------------------------------------------------------------
(* The metadata records of the model. *)

SeqsUpTo(S, n) == UNION {[1..k -> S] : k \in 0..n}

\* The mangled name of a nominal type `ident` of module M.
nominalName(kind, ident) ==
  <<CASE kind = "Class" -> "C" [] kind = "Struct" -> "V" [] OTHER -> "O">>
  \o <<"1", "M">>
  \o <<CASE Len(ident) = 1 -> "1" [] Len(ident) = 2 -> "2" [] OTHER -> "3">>
  \o ident

Nominal(kind, ident, parent, params) ==
  [kind |-> kind, Name |-> nominalName(kind, ident), Parent |-> parent,
   GenericParams |-> params]

StructA == Nominal("Struct", <<"A">>, <<>>, <<>>)
BoxOfA  == Nominal("Class", <<"B">>, <<>>, <<StructA>>)
Opaque  == [kind |-> "Opaque"]

\* The types the composite types of the model are made of: a plain nominal
\* type, a type with no demangling, a bound generic type.
ArgTypes == {StructA, Opaque, BoxOfA}
ElementTypes == {StructA, Opaque}

\* The name of a type declared at nesting depth k.
IdentAt(k) == IF k = 0 THEN <<"A">> ELSE IF k % 2 = 1 THEN <<"B">> ELSE <<"A", "B">>

ParentSlots(S) == {<<p>> : p \in S}

\* The enclosing types of depth k: not generic, generic, generic over a type
\* with no demangling.
RECURSIVE ParentsAt(_)
ParentsAt(k) ==
  {Nominal(IF k % 2 = 0 THEN "Struct" ELSE "Class", IdentAt(k), parent, params) :
     parent \in (IF k = 0 THEN {<<>>} ELSE ParentSlots(ParentsAt(k - 1))),
     params \in {<<>>, <<StructA>>, <<Opaque>>}}

NominalsAt(k) ==
  {Nominal(kind, IdentAt(k), parent, params) :
     kind \in {"Class", "Struct", "Enum"},
     parent \in (IF k = 0 THEN {<<>>} ELSE ParentSlots(ParentsAt(k - 1))),
     params \in SeqsUpTo(ArgTypes, MaxGenericParams)}

NominalTypes ==
  UNION {NominalsAt(k) : k \in 0..MaxNesting}
  \cup {Nominal("Optional", <<"O">>, <<>>, <<a>>) : a \in ArgTypes}

\* Protocol names: two mangled Swift protocols, two ObjC protocols.
ProtocolNames ==
  {<<"_", "T", "t", "P", "1", "M", "1", "A", "_">>,
   <<"_", "T", "t", "P", "1", "M", "1", "B", "_">>,
   <<"N">>, <<"N", "S">>}

Injective(f) == \A i, j \in DOMAIN f : f[i] = f[j] => i = j

ExistentialTypes ==
  {[kind |-> "Existential", Protocols |-> ps] :
     ps \in {f \in SeqsUpTo(ProtocolNames, MaxProtocols) : Injective(f)}}

Conventions == {"Swift", "Block", "CFunctionPointer", "Thin"}

FunctionTypes ==
  {[kind |-> "Function", Convention |-> c, Throws |-> th, Arguments |-> as,
    ResultType |-> r] :
     c \in Conventions, th \in BOOLEAN,
     as \in SeqsUpTo([pointer : ArgTypes, flag : BOOLEAN], MaxArgs),
     r \in ElementTypes}

\* The labels of tuple elements: none, x, z, yz.
Segments == {<<>>, <<"x">>, <<"z">>, <<"y", "z">>}

RECURSIVE packLabels(_)
\* The packed label string: each label followed by one space.
packLabels(segs) ==
  IF Len(segs) = 0 THEN <<>> ELSE Head(segs) \o <<" ">> \o packLabels(Tail(segs))

TupleTypes ==
  {[kind |-> "Tuple", Labels |-> ls, Elements |-> es] :
     es \in SeqsUpTo(ElementTypes, MaxElements),
     ls \in {<<>>} \cup {<<packLabels(segs)>> : segs \in SeqsUpTo(Segments, MaxElements)}}

\* A tuple's Labels, when present, hold one label per element.
WellFormedTuples ==
  {t \in TupleTypes :
     Len(t.Labels) = 1 =>
       Cardinality({i \in 1..Len(t.Labels[1]) : t.Labels[1][i] = " "})
         = Len(t.Elements)}

InstanceTypes ==
  ArgTypes \cup {[kind |-> "Existential", Protocols |-> <<<<"N">>>>],
                 [kind |-> "Tuple", Labels |-> <<>>, Elements |-> <<>>]}

MetatypeTypes == {[kind |-> "Metatype", InstanceType |-> t] : t \in InstanceTypes}

ExistentialMetatypeTypes ==
  {[kind |-> "ExistentialMetatype", InstanceType |-> t] : t \in InstanceTypes}

ForeignClassTypes ==
  {[kind |-> "ForeignClass", Name |-> nominalName("Class", i)] :
     i \in {<<"A">>, <<"A", "B">>}}

ObjCClassWrapperTypes ==
  {[kind |-> "ObjCClassWrapper", Name |-> n] : n \in {<<"N">>, <<"N", "S">>}}

UnnamedKinds ==
  {"Opaque", "HeapLocalVariable", "HeapGenericLocalVariable", "ErrorObject"}

UnnamedTypes == {[kind |-> k] : k \in UnnamedKinds}

Metadata ==
  NominalTypes \cup ExistentialTypes \cup FunctionTypes \cup WellFormedTuples
  \cup MetatypeTypes \cup ExistentialMetatypeTypes \cup ForeignClassTypes
  \cup ObjCClassWrapperTypes \cup UnnamedTypes

UBOutcomes == {Crash, nullptr, Junk}

Builds == [ub : UBOutcomes, objcInterop : BOOLEAN, ndebug : BOOLEAN]

----------------------------------------------------------------------------
(* One call of _swift_buildDemanglingForMetadata(type) in one build.       *)

Init ==
  /\ type \in Metadata
  /\ build \in Builds
  /\ pc = "call"
  /\ result = nullptr

\* Each action is the call on a type of one case of the switch: it returns
\* (or traps) with that case's result.

\* Class, Enum, Optional, Struct: the nominal type builder.
BuildNominal ==
  /\ pc = "call"
  /\ type.kind \in NominalKinds
  /\ result' = swift_buildDemanglingForMetadata(type, build)
  /\ pc' = "return"
  /\ UNCHANGED <<type, build>>

\* ObjCClassWrapper.
BuildObjCClassWrapper ==
  /\ pc = "call"
  /\ type.kind = "ObjCClassWrapper"
  /\ result' = swift_buildDemanglingForMetadata(type, build)
  /\ pc' = "return"
  /\ UNCHANGED <<type, build>>

\* ForeignClass.
BuildForeignClass ==
  /\ pc = "call"
  /\ type.kind = "ForeignClass"
  /\ result' = swift_buildDemanglingForMetadata(type, build)
  /\ pc' = "return"
  /\ UNCHANGED <<type, build>>

\* Existential.
BuildExistential ==
  /\ pc = "call"
  /\ type.kind = "Existential"
  /\ result' = swift_buildDemanglingForMetadata(type, build)
  /\ pc' = "return"
  /\ UNCHANGED <<type, build>>

\* ExistentialMetatype.
BuildExistentialMetatype ==
  /\ pc = "call"
  /\ type.kind = "ExistentialMetatype"
  /\ result' = swift_buildDemanglingForMetadata(type, build)
  /\ pc' = "return"
  /\ UNCHANGED <<type, build>>

\* Function.
BuildFunction ==
  /\ pc = "call"
  /\ type.kind = "Function"
  /\ result' = swift_buildDemanglingForMetadata(type, build)
  /\ pc' = "return"
  /\ UNCHANGED <<type, build>>

\* Metatype.
BuildMetatype ==
  /\ pc = "call"
  /\ type.kind = "Metatype"
  /\ result' = swift_buildDemanglingForMetadata(type, build)
  /\ pc' = "return"
  /\ UNCHANGED <<type, build>>

\* Tuple.
BuildTuple ==
  /\ pc = "call"
  /\ type.kind = "Tuple"
  /\ result' = swift_buildDemanglingForMetadata(type, build)
  /\ pc' = "return"
  /\ UNCHANGED <<type, build>>

\* Opaque, HeapLocalVariable, HeapGenericLocalVariable, ErrorObject.
BuildUnnamed ==
  /\ pc = "call"
  /\ type.kind \in UnnamedKinds
  /\ result' = swift_buildDemanglingForMetadata(type, build)
  /\ pc' = "return"
  /\ UNCHANGED <<type, build>>

Next ==
  \/ BuildNominal
  \/ BuildObjCClassWrapper
  \/ BuildForeignClass
  \/ BuildExistential
  \/ BuildExistentialMetatype
  \/ BuildFunction
  \/ BuildMetatype
  \/ BuildTuple
  \/ BuildUnnamed

Spec == Init /\ [][Next]_vars

\* The call has returned a result (it has not trapped).
Returned == pc = "return" /\ result # Crash

----------------------------------------------------------------------------
(* Properties. *)

\* The demangling of a component type t in the build of the state.
Built(t) == swift_buildDemanglingForMetadata(t, build)

Nameable(t) == IsNode(Built(t))

\* The component types whose demanglings the build of type needs.
Components ==
  CASE type.kind \in NominalKinds ->
         {type.GenericParams[i] : i \in 1..Len(type.GenericParams)}
    [] type.kind = "Function" ->
         {type.Arguments[i].pointer : i \in 1..Len(type.Arguments)}
         \cup {type.ResultType}
    [] type.kind = "Tuple" -> {type.Elements[i] : i \in 1..Len(type.Elements)}
    [] OTHER -> {}

\* C1: when the build of a generic argument, a function argument, a function
\* result or a tuple element gives no result, the build of the enclosing
\* nominal, function or tuple type gives no result either.
C1_Propagation ==
  (Returned /\ \E c \in Components : Built(c) = nullptr) => result = nullptr

----------------------------------------------------------------------------

SameProtocolSet(p, q) ==
  /\ Len(p) = Len(q)
  /\ {p[i] : i \in 1..Len(p)} = {q[i] : i \in 1..Len(q)}

\* C2: every existential type that lists the protocols of type in some other
\* order has the very same ProtocolList tree.
C2_Determinism ==
  (Returned /\ type.kind = "Existential") =>
    \A other \in ExistentialTypes :
      SameProtocolSet(other.Protocols, type.Protocols) => Built(other) = result

\* Not in the order of the names: the first protocol is greater than the last.
C2_Witness ==
  /\ Returned /\ type.kind = "Existential"
  /\ Len(type.Protocols) = 3
  /\ strcmp(type.Protocols[1], type.Protocols[3]) > 0
  /\ \E other \in ExistentialTypes :
       /\ SameProtocolSet(other.Protocols, type.Protocols)
       /\ other.Protocols # type.Protocols
       /\ Built(other) = result

----------------------------------------------------------------------------

\* The node kind of the nominal node of a type of the given metadata kind.
NominalNodeKind(kind) ==
  CASE kind = "Class" -> "Class" [] kind = "Struct" -> "Structure" [] OTHER -> "Enum"

GenericCase ==
  /\ Returned /\ type.kind \in NominalKinds
  /\ Len(type.GenericParams) > 0
  /\ \A i \in 1..Len(type.GenericParams) : Nameable(type.GenericParams[i])
  /\ Len(type.Parent) = 1 => Nameable(type.Parent[1])

\* The bound generic node: its kind by the metadata kind, its two children
\* the Type node of the nominal node and the TypeList of the arguments.
IsBoundGenericOfType(node) ==
  /\ node.kind = (CASE type.kind = "Class" -> "BoundGenericClass"
                    [] type.kind = "Struct" -> "BoundGenericStructure"
                    [] OTHER -> "BoundGenericEnum")
  /\ Len(node.children) = 2
  /\ node.children[2].kind = "TypeList"
  /\ node.children[2].children
       = [i \in 1..Len(type.GenericParams) |-> Built(type.GenericParams[i])]

----------------------------------------------------------------------------

\* The children of kind k of a node.
ChildrenOfKind(node, k) ==
  {i \in 1..Len(node.children) : node.children[i].kind = k}

\* The ArgumentTuple of a function node.
ArgumentTupleOf(node) ==
  node.children[CHOOSE i \in ChildrenOfKind(node, "ArgumentTuple") : TRUE]

\* C4: the ArgumentTuple of a function type with no arguments has exactly
\* one child, a NonVariadicTuple with no children.
C4_ZeroArguments ==
  (pc = "return" /\ type.kind = "Function" /\ Len(type.Arguments) = 0) =>
    /\ IsNode(result)
    /\ Cardinality(ChildrenOfKind(result, "ArgumentTuple")) = 1
    /\ ArgumentTupleOf(result).children = <<create("NonVariadicTuple")>>

----------------------------------------------------------------------------

\* A tree without the Type node at its root, if it has one.
WithoutTypeWrapper(node) ==
  IF node.kind = "Type" THEN node.children[1] ELSE node

\* The Class, Structure or Enum node of the result of a nominal type.
InnerNominalNode ==
  IF Len(type.GenericParams) > 0
  THEN result.children[1].children[1]
  ELSE result.children[1]

\* The identifier a nominal type's Name ends with (after kind, module and
\* the identifier's length).
OwnIdentifier == SubSeq(type.Name, 5, Len(type.Name))

NestedCase ==
  /\ Returned /\ type.kind \in NominalKinds
  /\ Len(type.Parent) = 1
  /\ Nameable(type.Parent[1])
  /\ IsNode(result)

\* C5: the nominal node of a type with a parent type has two children: the
\* parent's tree without its Type wrapper, which is no Module node, and the
\* Identifier of the type's own name.
C5_Nesting ==
  NestedCase =>
    /\ InnerNominalNode.kind = NominalNodeKind(type.kind)
    /\ Len(InnerNominalNode.children) = 2
    /\ InnerNominalNode.children[1] = WithoutTypeWrapper(Built(type.Parent[1]))
    /\ InnerNominalNode.children[1].kind \notin {"Module", "Type"}
    /\ InnerNominalNode.children[2] = createText("Identifier", OwnIdentifier)

\* A type nested in a type nested in a generic type: the parent's tree is
\* Type-wrapped, the grandparent's is a bound generic node.
C5_Witness ==
  /\ NestedCase
  /\ Len(type.Parent[1].Parent) = 1
  /\ Built(type.Parent[1]).kind = "Type"
  /\ Built(type.Parent[1].Parent[1]).kind = "BoundGenericStructure"
  /\ InnerNominalNode.children[1].children[1].kind = "BoundGenericStructure"

----------------------------------------------------------------------------

\* The positions of the spaces of a string.
Spaces(s) == {p \in 1..Len(s) : s[p] = " "}

\* The position of the i-th space of s, 0 for i = 0.
SpaceAt(s, i) ==
  IF i = 0 THEN 0
  ELSE CHOOSE p \in Spaces(s) : Cardinality({q \in Spaces(s) : q < p}) = i - 1

\* The i-th space-terminated segment of s.
SegmentAt(s, i) == SubSeq(s, SpaceAt(s, i - 1) + 1, SpaceAt(s, i) - 1)

\* C6: element i of the tuple's node is a TupleElement whose children are
\* the TupleElementName of segment i of the labels, when there are labels
\* and the segment is not empty, and then the element's type tree.
C6_TupleLabels ==
  (Returned /\ type.kind = "Tuple") =>
    /\ result.kind = "NonVariadicTuple"
    /\ Len(result.children) = Len(type.Elements)
    /\ \A i \in 1..Len(type.Elements) :
         /\ result.children[i].kind = "TupleElement"
         /\ result.children[i].children =
              IF Len(type.Labels) = 1 /\ SegmentAt(type.Labels[1], i) # <<>>
              THEN <<createText("TupleElementName", SegmentAt(type.Labels[1], i)),
                     Built(type.Elements[i])>>
              ELSE <<Built(type.Elements[i])>>

\* The labels "x  z " over three elements: named x, not named, named z.
C6_Witness ==
  /\ Returned /\ type.kind = "Tuple"
  /\ type.Labels = <<<<"x", " ", " ", "z", " ">>>>
  /\ Len(type.Elements) = 3
  /\ Len(result.children[1].children) = 2
  /\ result.children[1].children[1].text = <<"x">>
  /\ Len(result.children[2].children) = 1
  /\ result.children[3].children[1].text = <<"z">>

----------------------------------------------------------------------------

\* The input of argument i: its tree, inside InOut if and only if its flag is set.
InputAt(i) ==
  IF type.Arguments[i].flag
  THEN [kind |-> "InOut", text |-> NoText,
        children |-> <<Built(type.Arguments[i].pointer)>>]
  ELSE Built(type.Arguments[i].pointer)

\* C7: the one child of the ArgumentTuple is the input itself when the
\* function has one argument, and one NonVariadicTuple of the inputs in
\* order when it has two or more.
C7_SingleVsMulti ==
  (Returned /\ type.kind = "Function" /\ Len(type.Arguments) >= 1) =>
    /\ Cardinality(ChildrenOfKind(result, "ArgumentTuple")) = 1
    /\ Len(ArgumentTupleOf(result).children) = 1
    /\ IF Len(type.Arguments) = 1
       THEN ArgumentTupleOf(result).children[1] = InputAt(1)
       ELSE /\ ArgumentTupleOf(result).children[1].kind = "NonVariadicTuple"
            /\ ArgumentTupleOf(result).children[1].children
                 = [i \in 1..Len(type.Arguments) |-> InputAt(i)]

\* One argument passed by reference, and no tuple around it.
C7_WitnessSingle ==
  /\ Returned /\ type.kind = "Function" /\ Len(type.Arguments) = 1
  /\ type.Arguments[1].flag /\ Nameable(type.Arguments[1].pointer)
  /\ ArgumentTupleOf(result).children[1].kind = "InOut"

----------------------------------------------------------------------------

\* C8: over a type T with a tree, the existential metatype's node has the
\* one child Built(T), the metatype's node the one child Type(Built(T)).
C8_MetatypeAsymmetry ==
  (Returned /\ type.kind \in {"Metatype", "ExistentialMetatype"}
     /\ Nameable(type.InstanceType)) =>
    IF type.kind = "ExistentialMetatype"
    THEN result = [kind |-> "ExistentialMetatype", text |-> NoText,
                   children |-> <<Built(type.InstanceType)>>]
    ELSE result = [kind |-> "Metatype", text |-> NoText,
                   children |-> <<[kind |-> "Type", text |-> NoText,
                                   children |-> <<Built(type.InstanceType)>>]>>]

\* An existential metatype over a bound generic type: no Type node in it
\* above the BoundGenericClass.
C8_Witness ==
  /\ Returned /\ type.kind = "ExistentialMetatype"
  /\ type.InstanceType = BoxOfA
  /\ result.children[1].kind = "BoundGenericClass"

----------------------------------------------------------------------------

\* Whether name order holds along a sequence of names.
NonDecreasing(names) ==
  \A i \in 1..(Len(names) - 1) : strcmp(names[i], names[i + 1]) <= 0

\* The orders of the protocols of type: the sequences with the same names.
Orders == {o \in [1..Len(type.Protocols) -> {type.Protocols[i] : i \in 1..Len(type.Protocols)}] :
             SameProtocolSet(o, type.Protocols)}

\* The Type node of a protocol named n: of the decoded Protocol when the
\* name is a mangled symbol, else of Protocol(Module(__ObjC), Identifier(n)).
IsProtocolEntry(node, n) ==
  /\ node.kind = "Type"
  /\ Len(node.children) = 1
  /\ node.children[1].kind = "Protocol"
  /\ IF demangleSymbolAsNode(n) = nullptr
     THEN node.children[1].children
            = <<createText("Module", MANGLING_MODULE_OBJC), createText("Identifier", n)>>
     ELSE /\ node.children[1].children[1].kind = "Module"
          /\ node.children[1].children[2]
               = createText("Identifier", SubSeq(n, 8, Len(n) - 1))

\* C9: the ProtocolList has one child, a TypeList with one Type(Protocol)
\* child per protocol, in non-decreasing order of the protocols' names.
C9_ProtocolListShape ==
  (Returned /\ type.kind = "Existential") =>
    /\ result.kind = "ProtocolList"
    /\ Len(result.children) = 1
    /\ result.children[1].kind = "TypeList"
    /\ Len(result.children[1].children) = Len(type.Protocols)
    /\ \E o \in Orders :
         /\ NonDecreasing(o)
         /\ \A i \in 1..Len(o) : IsProtocolEntry(result.children[1].children[i], o[i])

\* Three protocols given in decreasing order of their names, a mangled one
\* and an ObjC one among them.
C9_Witness ==
  /\ Returned /\ type.kind = "Existential"
  /\ Len(type.Protocols) = 3
  /\ strcmp(type.Protocols[1], type.Protocols[2]) > 0
  /\ strcmp(type.Protocols[2], type.Protocols[3]) > 0
  /\ demangleSymbolAsNode(type.Protocols[1]) # nullptr
  /\ demangleSymbolAsNode(type.Protocols[3]) = nullptr
  /\ result.children[1].children[3].children[1].children[1].text = <<"M">>

----------------------------------------------------------------------------

FunctionCase ==
  /\ Returned /\ type.kind = "Function"
  /\ Len(type.Arguments) >= 1
  /\ \A c \in Components : Nameable(c)

\* C10: the function node's kind is the one of the convention; its children
\* are a ThrowsAnnotation if and only if the function throws, then the
\* ArgumentTuple, then the ReturnType of the result type's tree.
C10_FunctionLayout ==
  FunctionCase =>
    /\ result.kind = (CASE type.Convention = "Swift" -> "FunctionType"
                        [] type.Convention = "Block" -> "ObjCBlock"
                        [] type.Convention = "CFunctionPointer" -> "CFunctionPointer"
                        [] type.Convention = "Thin" -> "ThinFunctionType")
    /\ Len(result.children) = (IF type.Throws THEN 3 ELSE 2)
    /\ type.Throws => result.children[1] = create("ThrowsAnnotation")
    /\ result.children[Len(result.children) - 1].kind = "ArgumentTuple"
    /\ result.children[Len(result.children)]
         = [kind |-> "ReturnType", text |-> NoText,
            children |-> <<Built(type.ResultType)>>]

\* A throwing C function pointer type of two arguments.
C10_Witness ==
  /\ FunctionCase
  /\ type.Throws /\ type.Convention = "CFunctionPointer"
  /\ Len(type.Arguments) = 2
  /\ Len(result.children) = 3

====
